---- MODULE Spec2Model ----
(***************************************************************************)
(* A model of the frame codec (CRC-16, Hamming(7,4), frame layout), the    *)
(* fragmentation and reassembly logic and the stop-and-wait ARQ endpoint   *)
(* of the UDP protocol in src/protocol.py, src/utils and src/udp_client.py *)
(***************************************************************************)
EXTENDS Integers, Sequences, FiniteSets, TLC

VARIABLES
    fn,               \* which pure-function harness is running, and its phase
    arg,              \* the input drawn for the function under check
    ret,              \* the value the function returned
    seq_num,          \* client.seq_num of each endpoint
    expected_seq,     \* client.expected_seq of each endpoint
    fragment_buffers, \* client.fragment_buffers, as the set of its <<seq_num, fragment_id, data>>
    snd,              \* the locals of each endpoint's send call in progress
    inbox,            \* the datagrams on their way to each endpoint's socket
    delivered,        \* <<m, k>>: the application was handed the peer's message m a k-th time
    outcome,          \* the sends each endpoint has finished: message and result
    todo,             \* the lengths of the messages each application has yet to send
    last              \* the datagram read last: by whom, what was answered and handed on

codecVars == <<fn, arg, ret>>

endpointVars == <<seq_num, expected_seq, fragment_buffers, snd, inbox, delivered,
                  outcome, todo, last>>

vars == <<fn, arg, ret, seq_num, expected_seq, fragment_buffers, snd, inbox,
          delivered, outcome, todo, last>>

(***************************************************************************)
(* Integer and byte helpers: Python's >>, &, ^ and slicing.                *)
(***************************************************************************)
Pow2(n) == 2 ^ n

BitAt(x, i) == (x \div Pow2(i)) % 2

Min(a, b) == IF a <= b THEN a ELSE b

Max(a, b) == IF a >= b THEN a ELSE b

RECURSIVE XorW(_, _, _)
\* a ^ b on the low w bits
XorW(a, b, w) ==
    IF w = 0 THEN 0
    ELSE (((a % 2) + (b % 2)) % 2) + 2 * XorW(a \div 2, b \div 2, w - 1)

\* s[a:b] for 0 <= a, 0 <= b (0-based, end exclusive), clamped like Python
SliceAbs(s, a, b) ==
    LET lo == Min(a, Len(s))
        hi == Min(b, Len(s))
    IN  IF hi <= lo THEN <<>> ELSE SubSeq(s, lo + 1, hi)

\* a Python index that may be negative, as a slice bound of a sequence of length n
PyBound(i, n) == IF i < 0 THEN Max(n + i, 0) ELSE Min(i, n)

\* s[a:b] with Python's meaning of negative bounds
PySlice(s, a, b) == SliceAbs(s, PyBound(a, Len(s)), PyBound(b, Len(s)))

RECURSIVE FromBytes(_)
\* int.from_bytes(s, byteorder='big')
FromBytes(s) ==
    IF Len(s) = 0 THEN 0
    ELSE 256 * FromBytes(SubSeq(s, 1, Len(s) - 1)) + s[Len(s)]

\* n.to_bytes(2, byteorder='big'), for 0 <= n < 65536
ToBytes2(n) == <<n \div 256, n % 256>>

RECURSIVE ConcatFrom(_, _, _)
\* b''.join(list[lo - 1:hi]) (the range is halved so that the evaluation does
\* not nest once per element)
ConcatFrom(ss, lo, hi) ==
    IF lo > hi THEN <<>>
    ELSE IF lo = hi THEN ss[lo]
    ELSE LET mid == (lo + hi) \div 2
         IN  ConcatFrom(ss, lo, mid) \o ConcatFrom(ss, mid + 1, hi)

\* b''.join(list)
Concat(ss) == ConcatFrom(ss, 1, Len(ss))

(***************************************************************************)
(* utils/crc.py                                                            *)
(***************************************************************************)
\* the iteration when the top bit is tested before the input bit is added
CrcBitTestedFirst(crc, bit, polynomial) ==
    LET c1 == XorW(crc, bit * 32768, 16)
    IN  IF BitAt(crc, 15) = 1
        THEN XorW((c1 * 2) % 65536, polynomial % 65536, 16)
        ELSE (c1 * 2) % 65536

\* one iteration of the inner loop of calc_crc: one input bit
CrcBit(crc, bit, polynomial) ==
    LET c1 == XorW(crc, bit * 32768, 16)
    IN  IF BitAt(c1, 15) = 1
        THEN XorW((c1 * 2) % 65536, polynomial % 65536, 16)
        ELSE (c1 * 2) % 65536

RECURSIVE CrcByteLow(_, _, _, _)
\* the inner loop stopping one bit early: bit 0 of the byte is left out
CrcByteLow(crc, byte, i, polynomial) ==
    IF i < 1 THEN crc
    ELSE CrcByteLow(CrcBit(crc, BitAt(byte, i), polynomial), byte, i - 1, polynomial)

RECURSIVE CrcByte(_, _, _, _)
\* the inner loop of calc_crc: bits 7 down to 0 of one byte; i is the bit index
CrcByte(crc, byte, i, polynomial) ==
    IF i < 0 THEN crc
    ELSE CrcByte(CrcBit(crc, BitAt(byte, i), polynomial), byte, i - 1, polynomial)

RECURSIVE CrcFrom(_, _, _, _, _)
\* the outer loop of calc_crc over bytes lo..hi of data, left to right (the
\* range is halved so that the evaluation does not nest once per byte)
CrcFrom(crc, data, lo, hi, polynomial) ==
    IF lo > hi THEN crc
    ELSE IF lo = hi THEN CrcByte(crc, data[lo], 7, polynomial)
    ELSE LET mid == (lo + hi) \div 2
             c   == CrcFrom(crc, data, lo, mid, polynomial)
         IN  IF c >= 0 THEN CrcFrom(c, data, mid + 1, hi, polynomial) ELSE c

calc_crc(data, polynomial) == CrcFrom(65535, data, 1, Len(data), polynomial)

verify_crc(data, crc) == calc_crc(data, 32773) = crc

(***************************************************************************)
(* utils/hamming.py                                                        *)
(***************************************************************************)
RECURSIVE BitsOf(_)
\* the bits of an integer, most significant first (empty for 0)
BitsOf(n) == IF n = 0 THEN <<>> ELSE Append(BitsOf(n \div 2), n % 2)

RECURSIVE Zeros(_)
Zeros(n) == IF n <= 0 THEN <<>> ELSE <<0>> \o Zeros(n - 1)

RECURSIVE BitsToInt(_)
\* the integer whose bits, most significant first, are the sequence
BitsToInt(bits) ==
    IF Len(bits) = 0 THEN 0
    ELSE 2 * BitsToInt(SubSeq(bits, 1, Len(bits) - 1)) + bits[Len(bits)]

\* data_to_4_bits_groups: left-pad the bits to a multiple of 4, split in fours
data_to_4_bits_groups(binary_data) ==
    LET raw  == BitsOf(binary_data)
        bits == Zeros((4 - (Len(raw) % 4)) % 4) \o raw
    IN  [g \in 1..(Len(bits) \div 4) |-> SubSeq(bits, 4 * g - 3, 4 * g)]

Xor3(a, b, c) == (a + b + c) % 2

Xor4(a, b, c, d) == (a + b + c + d) % 2

\* the 7 code bits when p1 is computed over d0, d1, d2
HammingBitsParityMoved(d) ==
    LET p1 == Xor3(d[1], d[2], d[3])
        p2 == Xor3(d[1], d[3], d[4])
        p3 == Xor3(d[2], d[3], d[4])
    IN  <<p1, p2, d[1], p3, d[2], d[3], d[4]>>

\* the body of hamming74's loop: the 7 code bits of one 4-bit group
\* (sequence index 1..4 is the code's four_bits_data[0..3])
HammingBits(d) ==
    LET p1 == Xor3(d[1], d[2], d[4])
        p2 == Xor3(d[1], d[3], d[4])
        p3 == Xor3(d[2], d[3], d[4])
    IN  <<p1, p2, d[1], p3, d[2], d[3], d[4]>>

\* hamming74: the groups' code bits shifted in one after the other
hamming74(binary_data) ==
    LET groups == data_to_4_bits_groups(binary_data)
    IN  BitsToInt(Concat([g \in 1..Len(groups) |-> HammingBits(groups[g])]))

\* the 7 bits of a group, most significant first (the code's list `bits`)
GroupBits(encoded_data) == [k \in 1..7 |-> BitAt(encoded_data, 7 - k)]

\* the syndrome fix_hamming74_group computes (bits[j] is b[j + 1])
Syndrome(b) ==
    LET s1 == Xor4(b[7], b[5], b[3], b[1])
        s2 == Xor4(b[6], b[5], b[2], b[1])
        s3 == Xor4(b[4], b[3], b[2], b[1])
    IN  s1 + 2 * s2 + 4 * s3

\* fix_hamming74_group: (fixed_data, error_pos, had_error)
fix_hamming74_group(encoded_data) ==
    LET error_pos == Syndrome(GroupBits(encoded_data))
    IN  IF error_pos = 0
        THEN [fixed |-> encoded_data, pos |-> 0, had |-> FALSE]
        ELSE [fixed |-> XorW(encoded_data, Pow2(7 - error_pos), 7),
              pos   |-> 7 - error_pos,
              had   |-> TRUE]

\* the four data bits d0 d1 d2 d3 of a codeword, as the integer d0 d1 d2 d3
DataBits(cw) ==
    LET b == GroupBits(cw) IN BitsToInt(<<b[3], b[5], b[6], b[7]>>)

(***************************************************************************)
(* The byte-level codec protocol.py imports from utils.hamming             *)
(* (hamming74_encode, hamming74_decode): a block of up to 4 bytes becomes  *)
(* 8 codewords packed into 7 bytes, and back.                              *)
(***************************************************************************)
\* the 8 bits of each byte, most significant first
BytesToBits(s) == Concat([i \in 1..Len(s) |-> [k \in 1..8 |-> BitAt(s[i], 8 - k)]])

\* the bytes of a bit sequence whose length is a multiple of 8
BitsToBytes(bits) ==
    [i \in 1..(Len(bits) \div 8) |-> BitsToInt(SubSeq(bits, 8 * i - 7, 8 * i))]

\* hamming74_encode(block): the block zero-padded to 4 bytes, each of its 8
\* four-bit groups encoded as p1 p2 d0 p3 d1 d2 d3
hamming74_encode(block) ==
    LET bits == BytesToBits(block \o Zeros(4 - Len(block)))
    IN  BitsToBytes(Concat([g \in 1..8 |-> HammingBits(SubSeq(bits, 4 * g - 3, 4 * g))]))

\* the decoder's syndrome: the encoder's parity relations on the received bits
DecodeSyndrome(b) ==
    LET s1 == Xor4(b[1], b[3], b[5], b[7])
        s2 == Xor4(b[2], b[3], b[6], b[7])
        s3 == Xor4(b[4], b[5], b[6], b[7])
    IN  s1 + 2 * s2 + 4 * s3

\* one received codeword (7 bits): flip the bit the syndrome names, take d0..d3
DecodeGroup(b) ==
    LET e == DecodeSyndrome(b)
        c == [k \in 1..7 |-> IF k = e THEN 1 - b[k] ELSE b[k]]
    IN  <<c[3], c[5], c[6], c[7]>>

\* hamming74_decode(block, group_len): the first group_len decoded bytes
hamming74_decode(block, group_len) ==
    LET bits == BytesToBits(block \o Zeros(7 - Len(block)))
        data == BitsToBytes(Concat([g \in 1..8 |-> DecodeGroup(SubSeq(bits, 7 * g - 6, 7 * g))]))
    IN  SliceAbs(data, 0, group_len)

(***************************************************************************)
(* protocol.py: Frame                                                      *)
(***************************************************************************)
FRAGMENT_SIZE == 16

\* the longest message whose fragments the one-byte fields can count
FieldLimit == 255 * FRAGMENT_SIZE

\* the sequence number check_frame returns for a frame it rejects
None == -1

\* b'CRC error'
CRC_ERROR == <<67, 82, 67, 32, 101, 114, 114, 111, 114>>

\* b'Frame check error: ' (the exception's text follows it)
FRAME_CHECK_ERROR ==
    <<70, 114, 97, 109, 101, 32, 99, 104, 101, 99, 107, 32, 101, 114, 114, 111, 114, 58, 32>>

\* b'ACK'
ACK == <<65, 67, 75>>

\* the blocks without the last one when it is shorter than n
BlocksWhole(data, n) ==
    [k \in 1..(Len(data) \div n) |-> SliceAbs(data, n * (k - 1), n * k)]

\* data[i:i+4] for i in range(0, len(data), 4)
Blocks(data, n) ==
    [k \in 1..((Len(data) + n - 1) \div n) |-> SliceAbs(data, n * (k - 1), n * k)]

\* what stands for the OverflowError int.to_bytes raises: no bytes, no frames
OverflowError == <<>>

\* the call that was to return x raised instead
Raised(x) == Len(x) = 0

\* n.to_bytes(1, byteorder='big') raises OverflowError
ToBytes1Raises(n) == n < 0 \/ n > 255

\* Frame.create_frame(seq_num, data, fragment_id, total_fragments)
create_frame(seq, data, fragment_id, total_fragments) ==
    IF \/ ToBytes1Raises(seq)
       \/ ToBytes1Raises(fragment_id)
       \/ ToBytes1Raises(total_fragments)
       \/ Len(data) > 65535
    THEN OverflowError
    ELSE
    LET seq_byte          == <<seq>>
        fragment_info     == <<fragment_id, total_fragments>>
        blocks            == Blocks(data, 4)
        data_with_hamming == Concat([k \in 1..Len(blocks) |-> hamming74_encode(blocks[k])])
        original_len      == ToBytes2(Len(data))
        crc               == calc_crc(seq_byte \o fragment_info \o data_with_hamming
                                        \o original_len, 32773)
    IN  seq_byte \o fragment_info \o data_with_hamming \o original_len \o ToBytes2(crc)

RECURSIVE DecodeLoop(_, _, _, _)
\* the decoding loop of check_frame from block k on; decoded is what it has so far
DecodeLoop(blocks, k, decoded, bytes_needed) ==
    IF k > Len(blocks) THEN decoded
    ELSE LET group_len == Min(4, bytes_needed - Len(decoded))
             now       == decoded \o hamming74_decode(blocks[k], group_len)
         IN  IF Len(now) >= bytes_needed THEN now
             ELSE DecodeLoop(blocks, k + 1, now, bytes_needed)

\* Frame.check_frame(frame): (seq_num, decode_data, fragment_id, total_fragments)
check_frame(frame) ==
    IF Len(frame) < 3
    THEN [seq_num |-> None, data |-> FRAME_CHECK_ERROR, fragment_id |-> 0,
          total_fragments |-> 0]
    ELSE
    LET seq               == frame[1]
        fragment_id       == frame[2]
        total_fragments   == frame[3]
        data_with_hamming == PySlice(frame, 3, -4)
        original_len      == FromBytes(PySlice(frame, -4, -2))
        received_crc      == FromBytes(PySlice(frame, -2, Len(frame)))
        decoded           == DecodeLoop(Blocks(data_with_hamming, 7), 1, <<>>, original_len)
        decode_data       == SliceAbs(decoded, 0, original_len)
        frame_for_crc     == <<seq>> \o <<fragment_id, total_fragments>>
                                \o data_with_hamming \o ToBytes2(original_len)
        calculated_crc    == calc_crc(frame_for_crc, 32773)
    IN  IF calculated_crc = received_crc
        THEN [seq_num |-> seq, data |-> decode_data, fragment_id |-> fragment_id,
              total_fragments |-> total_fragments]
        ELSE [seq_num |-> None, data |-> CRC_ERROR, fragment_id |-> 0,
              total_fragments |-> 0]

(***************************************************************************)
(* udp_client.py: two endpoints of class client, each with a send path and *)
(* a receive loop on one socket.  A datagram on the wire is written as     *)
(* the tuple check_frame returns for it.                                   *)
(***************************************************************************)
\* the retry ceiling of both send loops; udp_client.py sets it to 10, the
\* loops are the same for every value and are explored here with 2
MAX_RETRY == 2

Endpoints == {"A", "B"}

Peer(e) == IF e = "A" THEN "B" ELSE "A"

\* the workloads: the lengths of the messages each application sends, in
\* order; 12 bytes go out as one frame, 40 bytes as three fragments, and
\* FieldLimit + 1 bytes would need 256
Workloads ==
    { [A |-> <<40>>,     B |-> <<>>],
      [A |-> <<12, 12>>, B |-> <<>>],
      [A |-> <<12>>,     B |-> <<12>>],
      [A |-> <<FieldLimit + 1, 12>>, B |-> <<>>] }

\* the lengths that occur in them
Lengths == {12, 40, FieldLimit + 1}

\* the number of the k-th message of endpoint e
MsgId(e, k) == IF e = "A" THEN k ELSE 2 + k

\* the bytes of message id, n bytes long: no two messages of up to 50 bytes
\* share a byte
Message(id, n) == [i \in 1..n |-> (50 * id + i) % 256]

\* the messages the applications send
Messages == {Message(id, n) : id \in 1..4, n \in {12, 20, 40}}

\* the deliveries counted apart: the first, and any later one
Times(D, data) == IF <<data, 1>> \in D THEN 2 ELSE 1

\* the frames when the number of fragments is rounded down
create_fragmented_frames_floor(seq, data) ==
    IF Len(data) <= FRAGMENT_SIZE
    THEN <<create_frame(seq, data, 0, 1)>>
    ELSE LET total_fragments == Len(data) \div FRAGMENT_SIZE
         IN  [k \in 1..total_fragments |->
                create_frame(seq, SliceAbs(data, (k - 1) * FRAGMENT_SIZE, k * FRAGMENT_SIZE),
                             k - 1, total_fragments)]

\* Frame.create_fragmented_frames(seq_num, data): the list of frames, or the
\* error the first create_frame that fails raises (the total is the same in
\* every call and no fragment id reaches it, so that is the first call)
create_fragmented_frames(seq, data) ==
    IF Len(data) <= FRAGMENT_SIZE
    THEN IF Raised(create_frame(seq, data, 0, 1)) THEN OverflowError
         ELSE <<create_frame(seq, data, 0, 1)>>
    ELSE LET total_fragments == (Len(data) + FRAGMENT_SIZE - 1) \div FRAGMENT_SIZE
             fragment_data(i) ==
                 SliceAbs(data, i * FRAGMENT_SIZE,
                          Min(i * FRAGMENT_SIZE + FRAGMENT_SIZE, Len(data)))
         IN  IF Raised(create_frame(seq, fragment_data(0), 0, total_fragments))
             THEN OverflowError
             ELSE [k \in 1..total_fragments |->
                     create_frame(seq, fragment_data(k - 1), k - 1, total_fragments)]

\* what check_frame returns for an unaltered create_frame(seq, data, ...)
Wire(seq, data, fragment_id, total_fragments) ==
    [seq_num |-> seq, data |-> data, fragment_id |-> fragment_id,
     total_fragments |-> total_fragments]

\* what check_frame returns for a datagram that lossy() has altered
GARBAGE == Wire(None, CRC_ERROR, 0, 0)

\* Frame.is_fragmented
is_fragmented(total_fragments) == total_fragments > 1

\* the payloads create_fragmented_frames cuts data into
FragmentData(data) ==
    LET total_fragments == (Len(data) + FRAGMENT_SIZE - 1) \div FRAGMENT_SIZE
    IN  [k \in 1..total_fragments |->
            SliceAbs(data, (k - 1) * FRAGMENT_SIZE,
                     Min((k - 1) * FRAGMENT_SIZE + FRAGMENT_SIZE, Len(data)))]

\* Frame.create_fragmented_frames, as the tuples the peer's check_frame gets
WireFrames(seq, data) ==
    IF Len(data) <= FRAGMENT_SIZE THEN <<Wire(seq, data, 0, 1)>>
    ELSE LET parts == FragmentData(data)
         IN  [k \in 1..Len(parts) |-> Wire(seq, parts[k], k - 1, Len(parts))]

\* ack_data[:3] == b'ACK'
StartsWithAck(f) == SliceAbs(f.data, 0, 3) = ACK

\* the executions in which lossy() returns every frame as it was given, a
\* datagram sent is on the peer's socket at once and no socket drops one are
\* those with fn = "clean" or fn = "quiet"
Clean == fn \in {"clean", "quiet"}

\* the sets of datagrams that can reach the peer when `frames` are each passed
\* through lossy() and sent: a frame arrives intact, arrives altered, or is lost
DataArrivals(frames) ==
    IF Clean THEN {frames}
    ELSE {X \cup G : X \in SUBSET frames, G \in {{}, {GARBAGE}}} \
             {frames \cup {GARBAGE}}

\* the bound on the datagrams a socket holds unread: what exceeds it is lost
MaxInFlight == 2

\* the queue of a socket after `arriving` reach it: queued is what it held
Queue(queued, arriving) ==
    IF Clean
    THEN \* a socket holds a set.  With fn = "clean" those executions are
         \* followed in which no datagram is sent while an equal one is still
         \* unread; with fn = "quiet" a datagram equal to an unread one counts
         \* once, so that no more datagrams are under way than the code has
         IF queued \cap arriving = {} \/ fn = "quiet"
         THEN {queued \cup arriving} ELSE {}
    ELSE {queued \cup X : X \in {Y \in SUBSET arriving :
                                    Cardinality(queued \cup Y) <= MaxInFlight}}

\* recvfrom of endpoint e can raise socket.timeout: in a clean execution only
\* with nothing to read on the socket
CanTimeOut(e) == Clean => inbox[e] = {}

Idle ==
    [pc |-> "idle", id |-> 0, n |-> 0, pending |-> {}, retries |-> <<>>,
     tries |-> 0, tx |-> <<>>, quiet |-> TRUE]

NoRead ==
    [ep |-> "none", path |-> "none", frame |-> GARBAGE, acks |-> {}, hit |-> FALSE,
     handed |-> {}]

\* an application with nothing to send
NoWork == [e \in Endpoints |-> <<>>]

\* client.__init__, for both endpoints
EndpointFresh ==
    /\ seq_num = [e \in Endpoints |-> 0]
    /\ expected_seq = [e \in Endpoints |-> 0]
    /\ fragment_buffers = [e \in Endpoints |-> {}]
    /\ snd = [e \in Endpoints |-> Idle]
    /\ inbox = [e \in Endpoints |-> {}]
    /\ delivered = [e \in Endpoints |-> {}]
    /\ outcome = [e \in Endpoints |-> <<>>]
    /\ last = NoRead

EndpointInit ==
    /\ EndpointFresh
    /\ todo \in Workloads

RECURSIVE MaxOf(_, _)
\* max(retries.values()) over the ids in dom
MaxOf(f, dom) ==
    IF dom = {} THEN 0
    ELSE LET x == CHOOSE y \in dom : TRUE
         IN  Max(f[x], MaxOf(f, dom \ {x}))

\* a transmission count, which stops counting one above the ceiling
Bump(n) == Min(n + 1, MAX_RETRY + 1)

\* an acknowledgment on its way to an endpoint whose send is in progress
Heard(s, arriving) ==
    IF s.pc # "idle" /\ \E f \in arriving : StartsWithAck(f)
    THEN [s EXCEPT !.quiet = FALSE] ELSE s

\* a return that toggles the sequence bit whatever the result
ReturnToggling(e, s, ok, box) ==
    /\ snd' = [snd EXCEPT ![e] = Idle]
    /\ outcome' = [outcome EXCEPT ![e] =
                     Append(@, [id |-> s.id, n |-> s.n, ok |-> ok, tx |-> s.tx,
                                quiet |-> s.quiet])]
    /\ seq_num' = [seq_num EXCEPT ![e] = 1 - @]
    /\ inbox' = box

\* a send call returns: True toggles the sequence bit
Return(e, s, ok, box) ==
    /\ snd' = [snd EXCEPT ![e] = Idle]
    /\ outcome' = [outcome EXCEPT ![e] =
                     Append(@, [id |-> s.id, n |-> s.n, ok |-> ok, tx |-> s.tx,
                                quiet |-> s.quiet])]
    /\ seq_num' = [seq_num EXCEPT ![e] = IF ok THEN 1 - @ ELSE @]
    /\ inbox' = box

\* the while loop when a round sends every fragment again, acknowledged or not
FragLoopAll(e, s, box) ==
    IF s.pending # {} /\ MaxOf(s.retries, DOMAIN s.retries) < MAX_RETRY
    THEN LET frames == WireFrames(seq_num[e], Message(s.id, s.n))
             round  == DOMAIN s.retries
         IN  \E arriving \in DataArrivals({frames[i + 1] : i \in round}) :
             \E q \in Queue(box[Peer(e)], arriving) :
                /\ inbox' = [box EXCEPT ![Peer(e)] = q]
                /\ snd' = [snd EXCEPT ![e] =
                             [s EXCEPT !.pc = "frag_wait",
                                       !.retries = [i \in DOMAIN @ |->
                                                      IF i \in s.pending THEN @[i] + 1 ELSE @[i]],
                                       !.tx = [i \in DOMAIN @ |-> Bump(@[i])]]]
                /\ UNCHANGED <<seq_num, outcome>>
    ELSE Return(e, s, s.pending = {}, box)

\* send_fragmented_message from the head of its while loop, with locals s and
\* the socket queues box: one more round of transmissions, or the return
FragLoop(e, s, box) ==
    IF s.pending # {} /\ MaxOf(s.retries, DOMAIN s.retries) < MAX_RETRY
    THEN LET frames == WireFrames(seq_num[e], Message(s.id, s.n))
             round  == {i \in s.pending : s.retries[i] < MAX_RETRY}
         IN  \E arriving \in DataArrivals({frames[i + 1] : i \in round}) :
             \E q \in Queue(box[Peer(e)], arriving) :
                /\ inbox' = [box EXCEPT ![Peer(e)] = q]
                /\ snd' = [snd EXCEPT ![e] =
                             [s EXCEPT !.pc = "frag_wait",
                                       !.retries = [i \in DOMAIN @ |->
                                                      IF i \in round THEN @[i] + 1 ELSE @[i]],
                                       !.tx = [i \in DOMAIN @ |->
                                                      IF i \in round THEN Bump(@[i]) ELSE @[i]]]]
                /\ UNCHANGED <<seq_num, outcome>>
    ELSE Return(e, s, s.pending = {}, box)

\* send_small_message from the head of its while loop
SmallLoop(e, s, box) ==
    IF s.tries < MAX_RETRY
    THEN \E arriving \in DataArrivals({Wire(seq_num[e], Message(s.id, s.n), 0, 1)}) :
         \E q \in Queue(box[Peer(e)], arriving) :
            /\ inbox' = [box EXCEPT ![Peer(e)] = q]
            /\ snd' = [snd EXCEPT ![e] =
                         [s EXCEPT !.pc = "small_wait", !.tx = [i \in DOMAIN @ |-> Bump(@[i])]]]
            /\ UNCHANGED <<seq_num, outcome>>
    ELSE Return(e, s, FALSE, box)

\* client.send: a new message of n bytes, up to the first wait for an answer
Send(e, n) ==
    /\ snd[e].pc = "idle"
    /\ Len(todo[e]) > 0
    /\ n = Head(todo[e])
    /\ todo' = [todo EXCEPT ![e] = Tail(@)]
    /\ LET total == IF n > 2 * FRAGMENT_SIZE
                    THEN (n + FRAGMENT_SIZE - 1) \div FRAGMENT_SIZE ELSE 1
           s == [pc |-> "start", id |-> MsgId(e, Len(outcome[e]) + 1), n |-> n,
                 pending |-> IF total > 1 THEN 0..(total - 1) ELSE {0},
                 retries |-> [i \in 0..(total - 1) |-> 0],
                 tries |-> 0,
                 tx |-> [i \in 0..(total - 1) |-> 0],
                 quiet |-> ~ \E f \in inbox[e] : StartsWithAck(f)]
       IN  IF n > 2 * FRAGMENT_SIZE
           THEN IF Raised(create_fragmented_frames(seq_num[e], Message(s.id, n)))
                THEN \* line 31 raises, nothing catches it: send_thread ends
                     /\ snd' = [snd EXCEPT ![e] = [Idle EXCEPT !.pc = "raised"]]
                     /\ UNCHANGED <<seq_num, outcome, inbox>>
                ELSE FragLoop(e, s, inbox)
           ELSE SmallLoop(e, s, inbox)
    /\ last' = NoRead
    /\ UNCHANGED <<expected_seq, fragment_buffers, delivered, codecVars>>

\* send_fragmented_message: recvfrom returns datagram f
FragRecv(e, f) ==
    /\ snd[e].pc = "frag_wait"
    /\ f \in inbox[e]
    /\ LET s   == snd[e]
           hit == StartsWithAck(f) /\ f.seq_num = seq_num[e] /\ f.fragment_id \in s.pending
           s1  == IF hit THEN [s EXCEPT !.pending = @ \ {f.fragment_id}] ELSE s
           box == [inbox EXCEPT ![e] = @ \ {f}]
       IN  /\ IF s1.pending = {}
              THEN FragLoop(e, s1, box)
              ELSE /\ snd' = [snd EXCEPT ![e] = s1]
                   /\ inbox' = box
                   /\ UNCHANGED <<seq_num, outcome>>
           /\ last' = [ep |-> e, path |-> "send", frame |-> f, acks |-> {}, hit |-> hit,
                       handed |-> {}]
    /\ UNCHANGED <<expected_seq, fragment_buffers, delivered, todo, codecVars>>

\* send_fragmented_message: recvfrom raises socket.timeout
FragTimeout(e) ==
    /\ snd[e].pc = "frag_wait"
    /\ CanTimeOut(e)
    /\ FragLoop(e, snd[e], inbox)
    /\ last' = NoRead
    /\ UNCHANGED <<expected_seq, fragment_buffers, delivered, todo, codecVars>>

\* send_small_message: recvfrom returns datagram f
SmallRecv(e, f) ==
    /\ snd[e].pc = "small_wait"
    /\ f \in inbox[e]
    /\ LET s   == snd[e]
           hit == f.data = ACK /\ f.seq_num = seq_num[e]
           box == [inbox EXCEPT ![e] = @ \ {f}]
       IN  /\ IF hit THEN Return(e, s, TRUE, box) ELSE SmallLoop(e, s, box)
           /\ last' = [ep |-> e, path |-> "send", frame |-> f, acks |-> {},
                       hit |-> StartsWithAck(f) /\ f.seq_num = seq_num[e]
                                 /\ f.fragment_id \in s.pending,
                       handed |-> {}]
    /\ UNCHANGED <<expected_seq, fragment_buffers, delivered, todo, codecVars>>

\* send_small_message: recvfrom raises socket.timeout
SmallTimeout(e) ==
    /\ snd[e].pc = "small_wait"
    /\ CanTimeOut(e)
    /\ SmallLoop(e, [snd[e] EXCEPT !.tries = @ + 1], inbox)
    /\ last' = NoRead
    /\ UNCHANGED <<expected_seq, fragment_buffers, delivered, todo, codecVars>>

(***************************************************************************)
(* The dictionary of dictionaries fragment_buffers, as a set of triples.   *)
(***************************************************************************)
\* self.fragment_buffers[seq][fragment_id] = data (creating the inner dict)
Put(B, seq, fragment_id, data) ==
    {t \in B : ~(t[1] = seq /\ t[2] = fragment_id)} \cup {<<seq, fragment_id, data>>}

\* the keys of self.fragment_buffers[seq]
Ids(B, seq) == {t[2] : t \in {u \in B : u[1] = seq}}

\* self.fragment_buffers[seq][fragment_id]
Get(B, seq, fragment_id) == (CHOOSE t \in B : t[1] = seq /\ t[2] = fragment_id)[3]

\* del self.fragment_buffers[seq]
Del(B, seq) == {t \in B : t[1] # seq}

\* the application of endpoint e is handed data (the print of the message);
\* the deliveries of the applications' messages are counted
Deliver(e, data) ==
    delivered' = [delivered EXCEPT ![e] =
                    IF data \in Messages THEN @ \cup {<<data, Times(@, data)>>} ELSE @]

\* what receive hands to the application for frame f, given the buffers B
Handed(e, f) ==
    IF f.seq_num = None THEN {}
    ELSE IF is_fragmented(f.total_fragments)
    THEN LET B == Put(fragment_buffers[e], f.seq_num, f.fragment_id, f.data)
         IN  IF /\ Cardinality(Ids(B, f.seq_num)) = f.total_fragments
                /\ \A i \in 0..(f.total_fragments - 1) : i \in Ids(B, f.seq_num)
             THEN {Concat([k \in 1..f.total_fragments |-> Get(B, f.seq_num, k - 1)])}
             ELSE {}
    ELSE IF f.seq_num = expected_seq[e] THEN {f.data} ELSE {}

\* the acknowledgment `ack` is sent to the peer of e; box is the socket queues
SendAck(e, ack, box) ==
    \E q \in Queue(box[Peer(e)], {ack}) :
        /\ inbox' = [box EXCEPT ![Peer(e)] = q]
        /\ snd' = [snd EXCEPT ![Peer(e)] = Heard(@, q \ box[Peer(e)])]

\* client.receive_fragmented_message
receive_fragmented_message(e, f, box) ==
    LET B        == Put(fragment_buffers[e], f.seq_num, f.fragment_id, f.data)
        ack      == Wire(f.seq_num, ACK, f.fragment_id, f.total_fragments)
        complete == /\ Cardinality(Ids(B, f.seq_num)) = f.total_fragments
                    /\ \A i \in 0..(f.total_fragments - 1) : i \in Ids(B, f.seq_num)
    IN  /\ SendAck(e, ack, box)
        /\ IF complete
           THEN /\ fragment_buffers' = [fragment_buffers EXCEPT ![e] = Del(B, f.seq_num)]
                /\ Deliver(e, Concat([k \in 1..f.total_fragments |->
                                        Get(B, f.seq_num, k - 1)]))
                /\ expected_seq' = [expected_seq EXCEPT ![e] =
                                      IF f.seq_num = @ THEN 1 - @ ELSE @]
           ELSE /\ fragment_buffers' = [fragment_buffers EXCEPT ![e] = B]
                /\ UNCHANGED <<delivered, expected_seq>>

\* client.receive for a frame with total_fragments <= 1
receive_single(e, f, box) ==
    /\ SendAck(e, Wire(f.seq_num, ACK, 0, 1), box)
    /\ IF f.seq_num = expected_seq[e]
       THEN /\ Deliver(e, f.data)
            /\ expected_seq' = [expected_seq EXCEPT ![e] = 1 - @]
       ELSE UNCHANGED <<delivered, expected_seq>>
    /\ UNCHANGED fragment_buffers

\* the acknowledgment receive answers frame f with
AckFor(f) ==
    IF is_fragmented(f.total_fragments)
    THEN Wire(f.seq_num, ACK, f.fragment_id, f.total_fragments)
    ELSE Wire(f.seq_num, ACK, 0, 1)

\* client.receive without the test of lines 124-126: a rejected frame is
\* handled like any other
ReceiveUnchecked(e, f, box) ==
    /\ IF is_fragmented(f.total_fragments)
       THEN receive_fragmented_message(e, f, box)
       ELSE receive_single(e, f, box)
    /\ last' = [ep |-> e, path |-> "recv", frame |-> f, acks |-> {AckFor(f)},
                hit |-> FALSE, handed |-> {}]

\* the body of client.receive once check_frame has returned f; box is the
\* socket queues without the datagram read
ReceiveFrame(e, f, box) ==
    IF f.seq_num = None
    THEN /\ inbox' = box
         /\ last' = [ep |-> e, path |-> "recv", frame |-> f, acks |-> {},
                     hit |-> FALSE, handed |-> {}]
         /\ UNCHANGED <<snd, fragment_buffers, delivered, expected_seq>>
    ELSE /\ IF is_fragmented(f.total_fragments)
            THEN receive_fragmented_message(e, f, box)
            ELSE receive_single(e, f, box)
         /\ last' = [ep |-> e, path |-> "recv", frame |-> f, acks |-> {AckFor(f)},
                     hit |-> /\ snd[e].pc # "idle"
                             /\ StartsWithAck(f)
                             /\ f.seq_num = seq_num[e]
                             /\ f.fragment_id \in snd[e].pending,
                     handed |-> Handed(e, f)]

\* client.receive, called by receive_thread: recvfrom returns datagram f
Receive(e, f) ==
    /\ f \in inbox[e]
    /\ ReceiveFrame(e, f, [inbox EXCEPT ![e] = @ \ {f}])
    /\ UNCHANGED <<seq_num, outcome, todo, codecVars>>

Next ==
    \/ \E e \in Endpoints : \E n \in Lengths : Send(e, n)
    \/ \E e \in Endpoints : \E f \in inbox[e] : FragRecv(e, f)
    \/ \E e \in Endpoints : FragTimeout(e)
    \/ \E e \in Endpoints : \E f \in inbox[e] : SmallRecv(e, f)
    \/ \E e \in Endpoints : SmallTimeout(e)
    \/ \E e \in Endpoints : \E f \in inbox[e] : Receive(e, f)

Init ==
    /\ fn = "none"
    /\ arg = <<>>
    /\ ret = <<>>
    /\ EndpointInit

Spec == Init /\ [][Next]_vars

\* the sends of endpoint e that have returned
Returned(e) == {outcome[e][k] : k \in 1..Len(outcome[e])}

\* C2: what the receiver reassembles and delivers is the id-ordered
\* concatenation of the fragments of one message sent by the peer.
C2_ReassemblyOfOneMessage ==
    (last.path = "recv" /\ is_fragmented(last.frame.total_fragments)) =>
        last.handed \subseteq Messages

\* C3: a send during which no acknowledgment reaches the sender returns
\* failure after exactly MAX_RETRY transmissions of each of its fragments.
C3_ExactlyMaxRetry ==
    \A e \in Endpoints : \A o \in Returned(e) :
        o.quiet => (~o.ok /\ \A i \in DOMAIN o.tx : o.tx[i] = MAX_RETRY)

\* C4: when a send returns success after an earlier send of the same endpoint
\* returned failure, its message has been delivered to the peer's application
\* exactly once.
C4_UsableAfterFailure ==
    \A e \in Endpoints : \A j, k \in 1..Len(outcome[e]) :
        (j < k /\ ~outcome[e][j].ok /\ outcome[e][k].ok) =>
            LET m == Message(outcome[e][k].id, outcome[e][k].n)
            IN  /\ <<m, 1>> \in delivered[Peer(e)]
                /\ <<m, 2>> \notin delivered[Peer(e)]

\* C5: an acknowledgment read by an endpoint, on either of its two paths, that
\* carries the sequence number of the message in flight and a fragment id
\* still pending, removes that fragment id from the pending set.
C5_AckAppliedOnEitherPath ==
    last.hit => last.frame.fragment_id \notin snd[last.ep].pending

\* C6: an acknowledgment frame read by the receive path is not delivered to
\* the application, does not toggle expected_seq and puts nothing into
\* fragment_buffers.
C6_AckLeavesReceiverAlone ==
    [][(last'.path = "recv" /\ last'.frame.data = ACK) =>
          /\ last'.handed = {}
          /\ expected_seq' = expected_seq
          /\ fragment_buffers' = fragment_buffers]_vars

\* C7: every data frame an endpoint reads that passes the CRC check is
\* answered with an acknowledgment of the same sequence number and the same
\* fragment id, on the receive path and on the sender's wait alike.
C7_EveryDataFrameAcked ==
    (last.ep \in Endpoints /\ last.frame.seq_num # None /\ ~StartsWithAck(last.frame)) =>
        \E a \in last.acks :
            /\ a.data = ACK
            /\ a.seq_num = last.frame.seq_num
            /\ a.fragment_id = last.frame.fragment_id

\* C12: a frame that fails the frame check is dropped by whichever path reads
\* it: nothing is delivered, no acknowledgment is sent, and expected_seq,
\* fragment_buffers, seq_num and the pending set stay as they were.
C12_FailedCheckDropped ==
    [][(last'.ep \in Endpoints /\ last'.frame.seq_num = None) =>
          /\ last'.handed = {}
          /\ last'.acks = {}
          /\ \A g \in inbox'[Peer(last'.ep)] \ inbox[Peer(last'.ep)] : ~StartsWithAck(g)
          /\ delivered' = delivered
          /\ expected_seq' = expected_seq
          /\ fragment_buffers' = fragment_buffers
          /\ seq_num' = seq_num
          /\ \A e \in Endpoints : snd'[e].pending = snd[e].pending]_vars

\* the receive loop of B has read a rejected frame while B held fragments
C12_Witness ==
    /\ last.ep = "B"
    /\ last.path = "recv"
    /\ last.frame.seq_num = None
    /\ fragment_buffers["B"] # {}

\* C14: the sender's sequence bit is 0 or 1; a send that returns success
\* toggles it once, and nothing else changes it: not a step of a send in
\* progress, not a failed send; every data frame an endpoint transmits carries
\* the bit, so all frames of one message carry the same sequence number.
C14_SeqToggledBySuccessOnly ==
    /\ [](\A e \in Endpoints : seq_num[e] \in {0, 1})
    /\ [][\A e \in Endpoints :
            LET succeeded == /\ Len(outcome'[e]) = Len(outcome[e]) + 1
                             /\ outcome'[e][Len(outcome'[e])].ok
            IN  /\ seq_num'[e] = IF succeeded THEN 1 - seq_num[e] ELSE seq_num[e]
                /\ \A g \in inbox'[Peer(e)] \ inbox[Peer(e)] :
                      (g.seq_num # None /\ ~StartsWithAck(g)) =>
                          /\ g.seq_num = seq_num[e]
                          /\ seq_num'[e] = seq_num[e]]_vars

\* a failed send that left the bit alone, then a successful one that toggled it
C14_Witness ==
    /\ Len(outcome["A"]) = 2
    /\ ~outcome["A"][1].ok
    /\ outcome["A"][2].ok
    /\ seq_num["A"] = 1

\* C16: a send of a message of any length, also one that needs more than 255
\* fragments, ends by returning a value; no error escapes from it.
C16_SendReturnsAValue ==
    \A e \in Endpoints : snd[e].pc # "raised"

\* C17: whatever frames reach the sender while it waits, a send transmits
\* each of its fragments at most MAX_RETRY times.
C17_AtMostMaxRetry ==
    \A e \in Endpoints :
        /\ \A i \in DOMAIN snd[e].tx : snd[e].tx[i] <= MAX_RETRY
        /\ \A o \in Returned(e) : \A i \in DOMAIN o.tx : o.tx[i] <= MAX_RETRY

\* C18: in a fragmented send the pending set starts as all fragment ids and
\* only shrinks; every round transmits exactly the fragments still pending,
\* so an acknowledged fragment is never transmitted again.
C18_PendingOnlyShrinks ==
    [][\A e \in Endpoints :
         LET s == snd[e]
             t == snd'[e]
         IN  /\ (s.pc = "idle" /\ t.pc = "frag_wait") =>
                    /\ t.pending = DOMAIN t.tx
                    /\ \A i \in DOMAIN t.tx : t.tx[i] = 1
             /\ (s.pc = "frag_wait" /\ t.pc = "frag_wait") =>
                    /\ t.pending \subseteq s.pending
                    /\ t.tx # s.tx =>
                          \A i \in DOMAIN s.tx :
                              t.tx[i] = IF i \in t.pending THEN s.tx[i] + 1 ELSE s.tx[i]
             /\ s.pc = "frag_wait" =>
                    \A g \in inbox'[Peer(e)] \ inbox[Peer(e)] :
                        (g.seq_num # None /\ ~StartsWithAck(g)) =>
                            g.fragment_id \in s.pending]_vars

\* fragments 0 and 2 were acknowledged after the first round, and the second
\* round has transmitted fragment 1 alone
C18_Witness ==
    /\ snd["A"].pc = "frag_wait"
    /\ snd["A"].pending = {1}
    /\ snd["A"].tx[0] = 1
    /\ snd["A"].tx[1] = 2
    /\ snd["A"].tx[2] = 1

\* C20: a reassembly buffer exists only while its message is being received:
\* in every state where no endpoint has a send in progress and no frame is in
\* transit, every receiver's map of reassembly buffers is empty.
C20_NoBufferWithoutTransfer ==
    (\A x \in Endpoints : snd[x].pc \in {"idle", "raised"} /\ inbox[x] = {}) =>
        \A e \in Endpoints : fragment_buffers[e] = {}

(***************************************************************************)
(* The two endpoints on a channel that loses, alters, duplicates and       *)
(* reorders nothing: lossy() changes no frame and the sockets drop none.   *)
(* Each endpoint's receive_thread reads the socket its send path reads.    *)
(***************************************************************************)
CleanWorkloads ==
    { [A |-> <<12>>, B |-> <<>>],
      [A |-> <<40>>, B |-> <<>>],
      [A |-> <<12>>, B |-> <<12>>] }

CleanInit ==
    /\ fn = "clean"
    /\ arg = <<>>
    /\ ret = <<>>
    /\ EndpointFresh
    /\ todo \in CleanWorkloads

SpecClean == CleanInit /\ [][Next]_vars

\* C27: on a channel that loses, corrupts, duplicates and reorders nothing,
\* with each endpoint's receive loop reading the socket of its send path,
\* every send returns success.
C27_CleanSendSucceeds ==
    \A e \in Endpoints : \A o \in Returned(e) : o.ok

(***************************************************************************)
(* The clean channel again, for single-frame messages, with both threads   *)
(* of each endpoint running for ever.                                      *)
(***************************************************************************)
QuietWorkloads ==
    { [A |-> <<12>>, B |-> <<>>],
      [A |-> <<12>>, B |-> <<12>>] }

QuietInit ==
    /\ fn = "quiet"
    /\ arg = <<>>
    /\ ret = <<>>
    /\ EndpointFresh
    /\ todo \in QuietWorkloads

\* the steps of the thread of endpoint e that calls send
SendPath(e) ==
    \/ Send(e, 12)
    \/ \E f \in inbox[e] : SmallRecv(e, f)
    \/ SmallTimeout(e)

\* the steps of receive_thread of endpoint e
ReceivePath(e) == \E f \in inbox[e] : Receive(e, f)

QuietNext ==
    \/ \E e \in Endpoints : SendPath(e)
    \/ \E e \in Endpoints : ReceivePath(e)

\* neither thread of an endpoint stops while it has a step to take:
\* receive_thread and send_thread are loops without an exit
ThreadsRun ==
    \A e \in Endpoints : WF_vars(ReceivePath(e)) /\ WF_vars(SendPath(e))

SpecQuiet == QuietInit /\ [][QuietNext]_vars /\ ThreadsRun

\* C28: the exchange quiesces: once every send has returned and no further
\* send is issued, a state is eventually reached after which no endpoint
\* transmits a frame, that is, no datagram is on its way any more.
C28_Quiesces ==
    <>[](\A e \in Endpoints : snd[e].pc \in {"idle", "raised"} /\ inbox[e] = {})

(***************************************************************************)
(* Harness for the receiver: the frames create_fragmented_frames makes of   *)
(* one message are handed to client.receive of endpoint B, whose buffers    *)
(* are empty, in any order and any of them again.                           *)
(***************************************************************************)
\* the number of frames handed to the receiver
MaxFeed == 6

FeedInit ==
    /\ fn = "feed"
    /\ arg \in [n : {20, 40}, seq : {0, 1}]
    /\ ret = [fed |-> <<>>]
    /\ EndpointFresh
    /\ todo = NoWork

\* the frames of the message, as they come out of the receiver's check_frame
FeedFrames == WireFrames(arg.seq, Message(1, arg.n))

\* the fragment ids handed over so far
FedIds == {ret.fed[i] : i \in DOMAIN ret.fed}

\* client.receive reads the frame of fragment k - 1
Feed(k) ==
    /\ fn = "feed"
    /\ Len(ret.fed) < MaxFeed
    /\ ReceiveFrame("B", FeedFrames[k], inbox)
    /\ ret' = [fed |-> Append(ret.fed, k - 1)]
    /\ UNCHANGED <<fn, arg, seq_num, outcome, todo>>

FeedNext == \E k \in DOMAIN FeedFrames : Feed(k)

SpecFeed == FeedInit /\ [][FeedNext]_vars

\* C1: a message the receiver has delivered to its application is never
\* delivered a second time, however often its frames are received again.
C1_NoSecondDelivery ==
    \A e \in Endpoints : \A m \in Messages : <<m, 2>> \notin delivered[e]

\* C9: the fragments of a message, handed to a receiver with empty buffers in
\* any order and with any of them repeated, yield exactly one reassembled
\* message, equal to the message.
C9_ExactlyOneReassembly ==
    (fn = "feed" /\ FedIds = {k - 1 : k \in DOMAIN FeedFrames}) =>
        delivered["B"] = {<<Message(1, arg.n), 1>>}

(***************************************************************************)
(* Harness for the frame codec: a frame is made by create_frame and then   *)
(* handed, unaltered, to check_frame.                                      *)
(***************************************************************************)
\* the longest payload
MaxLen == 17

\* the byte strings of length up to 2 over a few byte values, and one payload
\* of every length from 3 to MaxLen
Payloads ==
    {<<>>} \cup {<<a>> : a \in {0, 65, 255}}
           \cup {<<a, b>> : a \in {0, 65, 255}, b \in {0, 65, 255}}
           \cup {[i \in 1..n |-> (37 * i + 11 * n) % 256] : n \in 3..MaxLen}

CodecInit ==
    /\ fn = "codec_in"
    /\ arg \in [seq : {0, 1, 255}, fragment_id : {0, 2, 255},
                 total_fragments : {1, 3, 255}, data : Payloads]
    /\ ret = <<>>
    /\ EndpointFresh
    /\ todo = NoWork

Encode ==
    /\ fn = "codec_in"
    /\ fn' = "codec_frame"
    /\ ret' = create_frame(arg.seq, arg.data, arg.fragment_id, arg.total_fragments)
    /\ UNCHANGED <<arg, endpointVars>>

Check ==
    /\ fn = "codec_frame"
    /\ fn' = "codec_out"
    /\ ret' = check_frame(ret)
    /\ UNCHANGED <<arg, endpointVars>>

CodecNext == Encode \/ Check

SpecCodec == CodecInit /\ [][CodecNext]_vars

\* C8: check_frame applied to the unaltered create_frame(seq, m, fragment_id,
\* total_fragments) returns exactly (seq, m, fragment_id, total_fragments).
C8_FrameRoundTrip ==
    fn = "codec_out" =>
        ret = Wire(arg.seq, arg.data, arg.fragment_id, arg.total_fragments)

\* a frame whose payload does not fill its last 4-byte block has gone round
C8_Witness ==
    /\ fn = "codec_out"
    /\ Len(arg.data) = MaxLen
    /\ arg.fragment_id = 2
    /\ ret.data = arg.data
    /\ ret.seq_num = arg.seq

(***************************************************************************)
(* Harness for the integrity check: a frame made by create_frame has one   *)
(* of its bits flipped and is then handed to check_frame.                  *)
(***************************************************************************)
\* frame[bit // 8] ^= 0x80 >> (bit % 8): bit 0 is the first bit of the frame
FlipBit(frame, bit) ==
    [i \in 1..Len(frame) |->
        IF i = (bit \div 8) + 1 THEN XorW(frame[i], Pow2(7 - (bit % 8)), 8)
        ELSE frame[i]]

\* payloads of no, one, four and five bytes: no block, a padded block, a
\* whole block, a whole and a padded block
FlipPayloads == {<<>>, <<65>>, <<0, 255, 72, 7>>, <<72, 101, 108, 108, 111>>}

FlipInit ==
    /\ fn = "flip_in"
    /\ arg \in [seq : {0, 1}, fragment_id : {0, 2}, total_fragments : {1, 3},
                 data : FlipPayloads, bit : {0}]
    /\ ret = <<>>
    /\ EndpointFresh
    /\ todo = NoWork

FlipEncode ==
    /\ fn = "flip_in"
    /\ fn' = "flip_frame"
    /\ ret' = create_frame(arg.seq, arg.data, arg.fragment_id, arg.total_fragments)
    /\ UNCHANGED <<arg, endpointVars>>

FlipCheck(bit) ==
    /\ fn = "flip_frame"
    /\ fn' = "flip_out"
    /\ arg' = [arg EXCEPT !.bit = bit]
    /\ ret' = check_frame(FlipBit(ret, bit))
    /\ UNCHANGED endpointVars

\* the bit positions of the frame that has been made
FlipBits == IF fn = "flip_frame" THEN 0..(8 * Len(ret) - 1) ELSE {}

FlipNext ==
    \/ FlipEncode
    \/ \E bit \in FlipBits : FlipCheck(bit)

SpecFlip == FlipInit /\ [][FlipNext]_vars

\* C11: check_frame applied to a frame of create_frame with any one bit
\* flipped (header, FEC body, length field or CRC field) returns the error
\* outcome, sequence number None, never a decoded tuple.
C11_SingleBitFlipDetected ==
    fn = "flip_out" => ret.seq_num = None

\* a flip in the FEC body of a five-byte payload's frame has been rejected
C11_Witness ==
    /\ fn = "flip_out"
    /\ Len(arg.data) = 5
    /\ arg.bit = 8 * 3 + 5
    /\ ret = GARBAGE

(***************************************************************************)
(* Harness for short inputs: check_frame is handed a byte string shorter   *)
(* than the 7 bytes of header, length field and CRC field.                 *)
(***************************************************************************)
\* the byte strings of length n over the byte values B
Strings(B, n) == [1..n -> B]

\* the byte strings of length 0..6 over three byte values
ShortFrames == UNION {Strings({0, 89, 183}, n) : n \in 0..6}

ShortInit ==
    /\ fn = "short_in"
    /\ arg \in ShortFrames
    /\ ret = <<>>
    /\ EndpointFresh
    /\ todo = NoWork

ShortCheck ==
    /\ fn = "short_in"
    /\ fn' = "short_out"
    /\ ret' = check_frame(arg)
    /\ UNCHANGED <<arg, endpointVars>>

ShortNext == ShortCheck

SpecShort == ShortInit /\ [][ShortNext]_vars

\* C13: check_frame returns the error outcome, sequence number None, for
\* every byte string of length 0..6, whatever its content.
C13_ShortFrameRejected ==
    fn = "short_out" => ret.seq_num = None

(***************************************************************************)
(* Harness for create_fragmented_frames: a message is cut into frames and  *)
(* each frame is read back with check_frame.                               *)
(***************************************************************************)
\* the longest of the messages of every length
MaxSplit == 50

SplitInit ==
    /\ fn = "split_in"
    /\ arg \in [seq : {0, 1}, n : 0..MaxSplit \cup {FieldLimit, FieldLimit + 1}]
    /\ ret = <<>>
    /\ EndpointFresh
    /\ todo = NoWork

Split ==
    /\ fn = "split_in"
    /\ fn' = "split_out"
    /\ LET frames == create_fragmented_frames(arg.seq, Message(1, arg.n))
       IN  ret' = IF Raised(frames) THEN OverflowError
                  ELSE [k \in 1..Len(frames) |-> check_frame(frames[k])]
    /\ UNCHANGED <<arg, endpointVars>>

SplitNext == Split

SpecSplit == SplitInit /\ [][SplitNext]_vars

\* ceil(n / FRAGMENT_SIZE)
CeilFragments(n) == (n + FRAGMENT_SIZE - 1) \div FRAGMENT_SIZE

\* the list ret is `count` frames with that total, ids 0, 1, 2, ... in order,
\* payloads of at most FRAGMENT_SIZE bytes that concatenate to the message
SplitsInto(count) ==
    /\ ~Raised(ret)
    /\ Len(ret) = count
    /\ \A k \in 1..Len(ret) :
          /\ ret[k].seq_num = arg.seq
          /\ ret[k].total_fragments = count
          /\ ret[k].fragment_id = k - 1
          /\ Len(ret[k].data) <= FRAGMENT_SIZE
    /\ Concat([k \in 1..Len(ret) |-> ret[k].data]) = Message(1, arg.n)

\* C15 as stated: for every message the frames are ceil(len / FRAGMENT_SIZE)
\* in number and total, with ids 0, 1, 2, ... and payloads of at most
\* FRAGMENT_SIZE bytes that concatenate to the message.
C15_SplitForEveryMessage ==
    fn = "split_out" => SplitsInto(CeilFragments(arg.n))

\* C15 amended: that holds for every non-empty message of at most
\* 255 * FRAGMENT_SIZE bytes; the empty message gives one frame with id 0,
\* total 1 and an empty payload, and a longer message gives no frames but an
\* OverflowError.
C15_SplitWithinFieldRange ==
    fn = "split_out" =>
        IF arg.n = 0 THEN SplitsInto(1)
        ELSE IF arg.n <= FieldLimit THEN SplitsInto(CeilFragments(arg.n))
        ELSE Raised(ret)

\* 40 bytes have been cut into ids 0, 1, 2 with a last payload of 8 bytes
C15_Witness ==
    /\ fn = "split_out"
    /\ arg.n = 40
    /\ Len(ret) = 3
    /\ ret[3].fragment_id = 2
    /\ Len(ret[3].data) = 8

(***************************************************************************)
(* Harness for the sender's reading of late acknowledgments.  A's first    *)
(* send, 40 bytes in three fragments under sequence number 0, has been     *)
(* abandoned: fragments 1 and 2 reached B in the first round, A read the   *)
(* acknowledgment of fragment 1, the second round was lost, and the        *)
(* acknowledgment of fragment 2 is still unread on A's socket when A's     *)
(* next send starts, under the same sequence number.                       *)
(***************************************************************************)
\* the abandoned message
LateMessage == Message(MsgId("A", 1), 40)

LateInit ==
    /\ fn = "none"
    /\ arg = <<>>
    /\ ret = <<>>
    /\ seq_num = [e \in Endpoints |-> 0]
    /\ expected_seq = [e \in Endpoints |-> 0]
    /\ fragment_buffers =
           [e \in Endpoints |->
               IF e = "B"
               THEN Put(Put({}, 0, 1, FragmentData(LateMessage)[2]),
                        0, 2, FragmentData(LateMessage)[3])
               ELSE {}]
    /\ snd = [e \in Endpoints |-> Idle]
    /\ inbox = [e \in Endpoints |-> IF e = "A" THEN {Wire(0, ACK, 2, 3)} ELSE {}]
    /\ delivered = [e \in Endpoints |-> {}]
    /\ outcome =
           [e \in Endpoints |->
               IF e = "A"
               THEN <<[id |-> MsgId("A", 1), n |-> 40, ok |-> FALSE,
                       tx |-> [i \in 0..2 |-> IF i = 1 THEN 1 ELSE 2],
                       quiet |-> FALSE]>>
               ELSE <<>>]
    /\ todo \in {[A |-> <<12>>, B |-> <<>>], [A |-> <<40>>, B |-> <<>>]}
    /\ last = NoRead

SpecLate == LateInit /\ [][Next]_vars

\* C19: a fragment is marked acknowledged (its id leaves the pending set,
\* or the single-frame send returns success) only on reading, in the send,
\* a frame that passed the check, carries the ACK marker, has the sequence
\* number of the send in progress and the fragment id of that fragment; any
\* other frame leaves the pending set as it is.
C19_AckedOnlyByItsOwnAck ==
    [][\A e \in Endpoints :
         LET s == snd[e]
             t == snd'[e]
             succeeded == /\ Len(outcome'[e]) = Len(outcome[e]) + 1
                          /\ outcome'[e][Len(outcome'[e])].ok
             acked == IF s.pc = "frag_wait" /\ t.pc = "frag_wait"
                      THEN s.pending \ t.pending
                      ELSE IF s.pc \in {"frag_wait", "small_wait"} /\ succeeded
                           THEN s.pending
                           ELSE {}
         IN  \A i \in acked :
                /\ last'.ep = e
                /\ last'.path = "send"
                /\ StartsWithAck(last'.frame)
                /\ last'.frame.seq_num = seq_num[e]
                /\ last'.frame.fragment_id = i]_vars

(***************************************************************************)
(* Harness for client.send's choice between one frame and fragments, next  *)
(* to the count run_direction_test computes for the same message.          *)
(***************************************************************************)
\* send when it fragments every message longer than one fragment
send_frames_per_fragment(seq, data) ==
    IF Len(data) > FRAGMENT_SIZE
    THEN create_fragmented_frames(seq, data)
    ELSE <<create_frame(seq, data, 0, 1)>>

\* client.send: the frames of its first transmission of data
send_frames(seq, data) ==
    IF Len(data) > FRAGMENT_SIZE * 2
    THEN create_fragmented_frames(seq, data)
    ELSE <<create_frame(seq, data, 0, 1)>>

\* run_direction_test: fragments, None when create_fragmented_frames raises
fragments(seq, data) ==
    IF Len(data) > FRAGMENT_SIZE * 2
    THEN IF Raised(create_fragmented_frames(seq, data)) THEN None
         ELSE Len(create_fragmented_frames(seq, data))
    ELSE 1

RouteInit ==
    /\ fn = "route_in"
    /\ arg \in [seq : {0, 1}, n : 0..MaxSplit \cup {FieldLimit, FieldLimit + 1}]
    /\ ret = <<>>
    /\ EndpointFresh
    /\ todo = NoWork

Route ==
    /\ fn = "route_in"
    /\ fn' = "route_out"
    /\ LET frames == send_frames(arg.seq, Message(1, arg.n))
       IN  ret' = [frames |-> [k \in 1..Len(frames) |-> check_frame(frames[k])],
                   fragments |-> fragments(arg.seq, Message(1, arg.n))]
    /\ UNCHANGED <<arg, endpointVars>>

RouteNext == Route

SpecRoute == RouteInit /\ [][RouteNext]_vars

\* what was transmitted is one unfragmented frame holding the whole message
\* when the length is at most 2 * FRAGMENT_SIZE, ceil(len / FRAGMENT_SIZE)
\* fragment frames otherwise, and as many frames as the test counted
RoutedByLength ==
    /\ IF arg.n <= 2 * FRAGMENT_SIZE
       THEN /\ Len(ret.frames) = 1
            /\ ret.frames[1].total_fragments = 1
            /\ ret.frames[1].data = Message(1, arg.n)
       ELSE /\ Len(ret.frames) = CeilFragments(arg.n)
            /\ \A k \in 1..Len(ret.frames) :
                  ret.frames[k].total_fragments = CeilFragments(arg.n)
    /\ ret.fragments = Cardinality({ret.frames[k] : k \in 1..Len(ret.frames)})

MaxAckSeq == 31

Classes == {"client", "server"}

\* client.receive: ack = Frame.create_frame(seq_num, b'ACK')
client_ack(seq) == create_frame(seq, ACK, 0, 1)

\* server.receive_packet: b'ACK' + bytes([seq_num])
server_ack(seq) == ACK \o <<seq>>

\* client.send_small_message: the test of the frame read while waiting
client_accepts(ack_frame, seq) ==
    LET f == check_frame(ack_frame)
    IN  f.data = ACK /\ f.seq_num = seq

\* server.send_packet: the test of the response read while waiting
server_accepts(response, seq) == response = ACK \o <<seq>>

AckInit ==
    /\ fn = "ack_in"
    /\ arg \in {a \in [seq : 0..MaxAckSeq, from : Classes, to : Classes] :
                   a.to = "client" => a.seq \in {0, 1}}
    /\ ret = <<>>
    /\ EndpointFresh
    /\ todo = NoWork

Acknowledge ==
    /\ fn = "ack_in"
    /\ fn' = "ack_sent"
    /\ ret' = IF arg.from = "client" THEN client_ack(arg.seq) ELSE server_ack(arg.seq)
    /\ UNCHANGED <<arg, endpointVars>>

ReadAck ==
    /\ fn = "ack_sent"
    /\ fn' = "ack_read"
    /\ ret' = [ack |-> ret,
               accepted |-> IF arg.to = "client" THEN client_accepts(ret, arg.seq)
                            ELSE server_accepts(ret, arg.seq)]
    /\ UNCHANGED <<arg, endpointVars>>

AckNext == Acknowledge \/ ReadAck

SpecAck == AckInit /\ [][AckNext]_vars

\* C22: every acknowledgment emitted by a client or a server is a frame built
\* by the frame codec with payload ACK and the sequence number of the frame
\* it acknowledges, and the sender of the other endpoint accepts it as the
\* acknowledgment of its frame in flight.
C22_AckFramedAndAccepted ==
    /\ fn = "ack_sent" => ret = create_frame(arg.seq, ACK, 0, 1)
    /\ fn = "ack_read" =>
          /\ ret.ack = create_frame(arg.seq, ACK, 0, 1)
          /\ arg.from # arg.to => ret.accepted

(***************************************************************************)
(* Harness for hamming74: an integer of up to three 4-bit groups is        *)
(* encoded.                                                                *)
(***************************************************************************)
\* the largest integer encoded: three groups of four bits
MaxCode == 4095

EncInit ==
    /\ fn = "enc_in"
    /\ arg \in 0..MaxCode
    /\ ret = 0
    /\ EndpointFresh
    /\ todo = NoWork

Enc ==
    /\ fn = "enc_in"
    /\ fn' = "enc_out"
    /\ ret' = hamming74(arg)
    /\ UNCHANGED <<arg, endpointVars>>

EncNext == Enc

SpecEnc == EncInit /\ [][EncNext]_vars

\* the codeword p1 p2 d0 p3 d1 d2 d3 of the group d0 d1 d2 d3, as an integer
CodewordOf(d) ==
    LET d0 == (d \div 8) % 2
        d1 == (d \div 4) % 2
        d2 == (d \div 2) % 2
        d3 == d % 2
        p1 == (d0 + d1 + d3) % 2
        p2 == (d0 + d2 + d3) % 2
        p3 == (d1 + d2 + d3) % 2
    IN  64 * p1 + 32 * p2 + 16 * d0 + 8 * p3 + 4 * d1 + 2 * d2 + d3

RECURSIVE GroupByGroup(_)
\* the codewords of the 4-bit groups of n, one after the other in order
GroupByGroup(n) ==
    IF n < 16 THEN CodewordOf(n)
    ELSE 128 * GroupByGroup(n \div 16) + CodewordOf(n % 16)

\* C23: for every 4-bit group d0 d1 d2 d3 the encoder emits the codeword
\* p1 p2 d0 p3 d1 d2 d3, most significant bit first, with p1 = d0^d1^d3,
\* p2 = d0^d2^d3, p3 = d1^d2^d3, and an input of several groups is encoded
\* group by group in order.
C23_CodewordLayout ==
    fn = "enc_out" => ret = GroupByGroup(arg)

\* the two groups 1011 0101 have been encoded as 0110011 0100101
C23_Witness ==
    /\ fn = "enc_out"
    /\ arg = 181
    /\ ret = 128 * 51 + 37

(***************************************************************************)
(* Harness for calc_crc and verify_crc, next to the byte-wise algorithm of *)
(* the specification: the register starts at 0xFFFF, each input byte is    *)
(* XORed into its high byte, then eight times the register is shifted left *)
(* and, if its top bit was set, XORed with the polynomial, masked to 16     *)
(* bits.                                                                   *)
(***************************************************************************)
\* the longest byte string checked
MaxCrcLen == 3

CrcStrings == UNION {Strings({0, 48, 49, 165, 255}, n) : n \in 0..MaxCrcLen}

\* 0x8005, 0x1021, 0, 0xFFFF and the 17-bit 0x18005
Polynomials == {32773, 4129, 0, 65535, 98309}

RECURSIVE ShiftSteps(_, _, _)
\* n shift / conditional-XOR steps of the specified algorithm
ShiftSteps(reg, n, polynomial) ==
    IF n = 0 THEN reg
    ELSE ShiftSteps(IF BitAt(reg, 15) = 1
                    THEN XorW((reg * 2) % 65536, polynomial % 65536, 16)
                    ELSE (reg * 2) % 65536,
                    n - 1, polynomial)

RECURSIVE ByteWiseCrc(_, _, _)
\* the specified algorithm over the bytes of data, from register reg
ByteWiseCrc(reg, data, polynomial) ==
    IF Len(data) = 0 THEN reg
    ELSE ByteWiseCrc(ShiftSteps(XorW(reg, 256 * Head(data), 16), 8, polynomial),
                     Tail(data), polynomial)

CrcInit ==
    /\ fn = "crc_in"
    /\ arg \in [data : CrcStrings, polynomial : Polynomials]
    /\ ret = <<>>
    /\ EndpointFresh
    /\ todo = NoWork

Crc ==
    /\ fn = "crc_in"
    /\ fn' = "crc_out"
    /\ ret' = [crc |-> calc_crc(arg.data, arg.polynomial),
               verified |-> verify_crc(arg.data, calc_crc(arg.data, 32773))]
    /\ UNCHANGED <<arg, endpointVars>>

CrcNext == Crc

SpecCrc == CrcInit /\ [][CrcNext]_vars

\* C25: for every byte sequence and polynomial calc_crc returns the value of
\* the specified byte-wise algorithm, the value is in 0..65535, and
\* verify_crc(data, calc_crc(data, 0x8005)) is true.
C25_CrcMatchesByteWise ==
    fn = "crc_out" =>
        /\ ret.crc = ByteWiseCrc(65535, arg.data, arg.polynomial)
        /\ ret.crc \in 0..65535
        /\ ret.verified

\* the CRC of b'101' under 0x8005 has been computed
C25_Witness ==
    /\ fn = "crc_out"
    /\ arg.data = <<49, 48, 49>>
    /\ arg.polynomial = 32773
    /\ ret.crc = 11633
    /\ ret.verified

(***************************************************************************)
(* Harness for a receiver with two peers: the clients at addresses P and Q *)
(* each send their first message, 40 bytes in three fragments under        *)
(* sequence number 0 (or both their second, under 1), and client.receive   *)
(* of endpoint B reads their frames in any order.  ret.origin remembers    *)
(* the address each fragment in B's buffers came from.                     *)
(***************************************************************************)
\* the number of frames the receiver reads
MaxPeerFeed == 4

\* the values of addr that recvfrom returns
Sources == {"P", "Q"}

\* the message of the client at address src
PeerMessage(src) == Message(IF src = "P" THEN 1 ELSE 2, 40)

\* its frames, as they come out of the receiver's check_frame
PeerFrames(src) == WireFrames(arg.seq, PeerMessage(src))

PeersInit ==
    /\ fn = "peers"
    /\ arg \in [seq : {0, 1}]
    /\ ret = [count |-> 0, origin |-> {}]
    /\ EndpointFresh
    /\ todo = NoWork

\* client.receive reads the frame of fragment k - 1 sent from address src
FeedFrom(src, k) ==
    /\ fn = "peers"
    /\ ret.count < MaxPeerFeed
    /\ ReceiveFrame("B", PeerFrames(src)[k], inbox)
    /\ ret' = [count  |-> ret.count + 1,
               origin |-> IF Handed("B", PeerFrames(src)[k]) # {} THEN {}
                          ELSE {o \in ret.origin : o[1] # k - 1} \cup {<<k - 1, src>>}]
    /\ UNCHANGED <<fn, arg, seq_num, outcome, todo>>

PeersNext == \E src \in Sources : \E k \in 1..3 : FeedFrom(src, k)

SpecPeers == PeersInit /\ [][PeersNext]_vars

\* C26: reassembly buffers are kept per sequence number and originating
\* peer: fragments received from two source addresses with the same sequence
\* number are never in the same buffer, and what is delivered is never put
\* together from the fragments of both.
C26_BuffersPerPeer ==
    /\ Cardinality({o[2] : o \in ret.origin}) <= 1
    /\ \A m \in last.handed : \E src \in Sources : m = PeerMessage(src)

(***************************************************************************)
(* The sender's next send after the abandoned one, as in SpecLate, for a   *)
(* message of 12 bytes, with ret listing the fragment ids of the message   *)
(* being sent of which B has read an intact frame.                         *)
(***************************************************************************)
LeftInit ==
    /\ LateInit
    /\ todo["A"] = <<12>>

\* the fragment ids listed in ret
Seen == {ret[k] : k \in DOMAIN ret}

\* the frames of the message the send in progress of endpoint e transmits
InFlight(e) ==
    IF snd[e].pc \in {"frag_wait", "small_wait"}
    THEN {WireFrames(seq_num[e], Message(snd[e].id, snd[e].n))[k] :
             k \in 1..Len(WireFrames(seq_num[e], Message(snd[e].id, snd[e].n)))}
    ELSE {}

\* client.receive of endpoint e reads datagram f
TrackedReceive(e, f) ==
    /\ f \in inbox[e]
    /\ ReceiveFrame(e, f, [inbox EXCEPT ![e] = @ \ {f}])
    /\ ret' = IF f \in InFlight(Peer(e)) /\ f.fragment_id \notin Seen
              THEN Append(ret, f.fragment_id) ELSE ret
    /\ UNCHANGED <<fn, arg, seq_num, outcome, todo>>

LeftNext ==
    \/ \E e \in Endpoints : \E n \in Lengths : Send(e, n)
    \/ \E e \in Endpoints : \E f \in inbox[e] : SmallRecv(e, f)
    \/ \E e \in Endpoints : SmallTimeout(e)
    \/ \E e \in Endpoints : \E f \in inbox[e] : TrackedReceive(e, f)

SpecLeft == LeftInit /\ [][LeftNext]_vars

\* C29: a send returns success only if, during that send, the peer received
\* an intact copy of every fragment of that very message; an acknowledgment
\* left over from an earlier message with the same sequence bit never
\* completes a send whose fragment the peer did not receive.
C29_SuccessMeansReceived ==
    \A o \in Returned("A") :
        o.ok => \A i \in DOMAIN o.tx : i \in Seen

(***************************************************************************)
(* Harness for fix_hamming74_group: the codeword of a 4-bit group, with    *)
(* one bit flipped when arg.flipped, is handed to the group decoder.       *)
(***************************************************************************)
HamInit ==
    /\ fn = "ham_in"
    /\ arg \in [d : 0..15, flip : 0..6, flipped : BOOLEAN]
    /\ ret = [fixed |-> 0, pos |-> 0, had |-> FALSE]
    /\ EndpointFresh
    /\ todo = NoWork

\* the 7-bit group that reaches the decoder
Received(a) ==
    IF a.flipped THEN XorW(hamming74(a.d), Pow2(a.flip), 7) ELSE hamming74(a.d)

HamFix ==
    /\ fn = "ham_in"
    /\ fn' = "ham_out"
    /\ ret' = fix_hamming74_group(Received(arg))
    /\ UNCHANGED <<arg, endpointVars>>

HamNext == HamFix

SpecHam == HamInit /\ [][HamNext]_vars

\* C10: for each of the 16 data groups and each of the 7 bit positions, the
\* group decoder applied to the codeword with that one bit flipped returns the
\* original codeword, hence the original 4 data bits.
C10_SingleBitCorrected ==
    (fn = "ham_out" /\ arg.flipped) =>
        /\ ret.fixed = hamming74(arg.d)
        /\ DataBits(ret.fixed) = arg.d

\* C24: for each of the 16 codewords of the encoder the decoder computes a
\* zero syndrome and returns the codeword unchanged with had_error False; a
\* non-zero syndrome flips exactly one bit, the one at the 1-based codeword
\* position (s3<<2)|(s2<<1)|s1.
C24_ValidCodewordUntouched ==
    fn = "ham_out" =>
        /\ ~arg.flipped =>
              /\ Syndrome(GroupBits(hamming74(arg.d))) = 0
              /\ ret.fixed = hamming74(arg.d)
              /\ ~ret.had
        /\ ret.had =>
              ret.fixed = XorW(Received(arg),
                               Pow2(7 - Syndrome(GroupBits(Received(arg)))), 7)

====
